---- MODULE Spec2Model ----
(***************************************************************************)
(* Fraud Finder front end: the MainScreen component (landing screen with   *)
(* the analysis form), its navigation flags and the asynchronous           *)
(* handleAnalyze flow against POST /api/analyze.                           *)
(*                                                                         *)
(* Text typed by the user is a sequence of one-character strings, so that  *)
(* String.prototype.trim and the URL regular expression are computed       *)
(* character by character.  JavaScript values that cross the network       *)
(* boundary are tagged records [k |-> kind, v |-> payload].                *)
(***************************************************************************)
EXTENDS Integers, Sequences, FiniteSets, TLC

VARIABLES showSignUp, showLogin, userName, showProfile,
          input, analysisType, result, loading,
          calls, lastSelected, last, posts,
          sidebarSelected, contentSelected, signUpForm, loginForm, alert,
          backArg

vars == <<showSignUp, showLogin, userName, showProfile,
          input, analysisType, result, loading, calls, lastSelected, last, posts,
          sidebarSelected, contentSelected, signUpForm, loginForm, alert,
          backArg>>

(***************************************************************************)
(* Bounds of the model.                                                    *)
(***************************************************************************)
\* longest run of whitespace put before and after a typed text
MaxPad == 1
\* longest analysis.red_flags array a response carries
MaxFlags == 9

(***************************************************************************)
(* JavaScript values.                                                      *)
(***************************************************************************)
JNull == [k |-> "null"]
Undefined == [k |-> "undefined"]
Str(s) == [k |-> "string", v |-> s]
Num(n) == [k |-> "number", v |-> n]
Arr(s) == [k |-> "array", v |-> s]
Obj(f) == [k |-> "object", v |-> f]

\* o.name for a value o that is neither null nor undefined
Get(o, name) ==
    IF o.k = "object" /\ name \in DOMAIN o.v THEN o.v[name] ELSE Undefined

\* ToBoolean
Truthy(x) ==
    CASE x.k = "null" -> FALSE
      [] x.k = "undefined" -> FALSE
      [] x.k = "string" -> x.v # ""
      [] x.k = "number" -> x.v # 0
      [] OTHER -> TRUE

\* typeof x === 'object'
TypeofObject(x) == x.k \in {"null", "object", "array"}

\* Array.isArray(x)
IsArray(x) == x.k = "array"

(***************************************************************************)
(* Text: String.prototype.trim and /^https?:\/\//i.                        *)
(***************************************************************************)
WhiteSpace == {" ", "\t", "\n"}

RECURSIVE TrimStart(_)
TrimStart(s) ==
    IF s # <<>> /\ Head(s) \in WhiteSpace THEN TrimStart(Tail(s)) ELSE s

RECURSIVE TrimEnd(_)
TrimEnd(s) ==
    IF s # <<>> /\ s[Len(s)] \in WhiteSpace
    THEN TrimEnd(SubSeq(s, 1, Len(s) - 1))
    ELSE s

\* input.trim()
Trim(s) == TrimEnd(TrimStart(s))

\* case folding of the i flag, on the letters of the pattern
Canonicalize(c) ==
    CASE c = "h" -> "H"
      [] c = "t" -> "T"
      [] c = "p" -> "P"
      [] c = "s" -> "S"
      [] OTHER -> c

\* the literal lit matches s at position from, ignoring case
MatchAt(s, from, lit) ==
    /\ Len(s) >= from + Len(lit) - 1
    /\ \A i \in 1..Len(lit) : Canonicalize(s[from + i - 1]) = Canonicalize(lit[i])

\* the literal lit matches s at position from, case-sensitively
MatchExactAt(s, from, lit) ==
    /\ Len(s) >= from + Len(lit) - 1
    /\ \A i \in 1..Len(lit) : s[from + i - 1] = lit[i]

IsUrlCaseSensitive(s) ==
    /\ MatchExactAt(s, 1, <<"h", "t", "t", "p">>)
    /\ \/ MatchExactAt(s, 5, <<"s", ":", "/", "/">>)
       \/ MatchExactAt(s, 5, <<":", "/", "/">>)

\* /^https?:\/\//i.test(s)
IsUrl(s) ==
    /\ MatchAt(s, 1, <<"h", "t", "t", "p">>)
    /\ \/ MatchAt(s, 5, <<"s", ":", "/", "/">>)
       \/ MatchAt(s, 5, <<":", "/", "/">>)

(***************************************************************************)
(* The texts the user can type.                                            *)
(***************************************************************************)
HttpsExample ==
    <<"h", "t", "t", "p", "s", ":", "/", "/", "e", "x", "a", "m", "p", "l",
      "e", ".", "c", "o", "m", "/", "j", "o", "b", "/", "1", "2", "3">>
HttpUpper == <<"H", "T", "t", "P", ":", "/", "/", "a">>
HttpOneSlash == <<"h", "t", "t", "p", ":", "/", "a">>
JobText == <<"j", "o", "b">>
UrlInside == <<"j", "o", "b", " ", "h", "t", "t", "p", ":", "/", "/", "a">>

Cores == {<<>>, HttpsExample, HttpUpper, HttpOneSlash, JobText, UrlInside}

WsCycle == <<" ", "\t", "\n">>
Pad(n) == [i \in 1..n |-> WsCycle[((i - 1) % 3) + 1]]

\* whitespace typed before a text, after it, or the same run on both sides
PadShapes == {<<i, j>> \in (0..MaxPad) \X (0..MaxPad) : i = 0 \/ j = 0 \/ i = j}

\* the texts typed with whitespace around them
PaddedCores == {<<>>, HttpsExample, HttpUpper, JobText}

Inputs == Cores \cup {Pad(p[1]) \o c \o Pad(p[2]) : p \in PadShapes, c \in PaddedCores}

Names == {"", "alice"}

(***************************************************************************)
(* What the network can answer.                                            *)
(***************************************************************************)
FlagTexts == <<"Upfront fee", "No flag", "Gmail contact">>
FlagList(n) == [i \in 1..n |-> Str(FlagTexts[((i - 1) % 3) + 1])]

ErrorFields == {[risk_score |-> Num(42)],
                [error |-> Str("")],
                [error |-> Str("")] @@ [risk_score |-> Num(42)],
                [error |-> Str("Invalid URL")],
                [error |-> Str("Invalid URL")] @@ [risk_score |-> Num(42)],
                [error |-> Str("Invalid URL")] @@ [risk_score |-> Num(42)]
                    @@ [analysis |-> Obj([red_flags |-> Arr(FlagList(3))])]}

AnalysisFields ==
    {[risk_score |-> Num(42)] @@ [analysis |-> Obj([red_flags |-> Arr(FlagList(n))])]
        : n \in 0..MaxFlags}
    \cup {[risk_score |-> Num(42)] @@ [analysis |-> Obj([llm_analysis |-> Str("ok")])],
          [risk_score |-> Num(42)] @@ [analysis |-> Obj([red_flags |-> Str("none")])]}

\* risk scores below, at the ends of and above the range [0,100]
RiskScores == {-7, 0, 100, 101, 250}

ScoreFields == {[risk_score |-> Num(n)] : n \in RiskScores}

\* the values response.json() can resolve to
Bodies == {JNull, Num(7), Str("plain text")}
          \cup {Obj(f) : f \in ErrorFields \cup AnalysisFields \cup ScoreFields}

\* the values a rejected fetch or a failed response.json() can throw
Failures == {Obj([name |-> Str("TypeError")] @@ [message |-> Str("Failed to fetch")]),
             Obj([name |-> Str("Error")] @@ [message |-> Str("")]),
             Obj([name |-> Str("AbortError")])}

\* a settled body read: either the parsed value or the thrown failure
Parses == {[k |-> "value", v |-> b] : b \in Bodies}
          \cup {[k |-> "throws", v |-> e] : e \in Failures}

\* a 2xx response can carry any body; a non-2xx response carries an error
\* body, a body that is not an object, or one that does not parse
NonOkParses == {[k |-> "value", v |-> b] : b \in {JNull, Num(7)} \cup {Obj(f) : f \in ErrorFields}}
               \cup {[k |-> "throws", v |-> e] : e \in Failures}

Responses == {[ok |-> TRUE, json |-> p] : p \in Parses}
             \cup {[ok |-> FALSE, json |-> p] : p \in NonOkParses}

(***************************************************************************)
(* handleAnalyze, the pure parts.                                          *)
(***************************************************************************)
ValidationMessage == "Please enter a job posting URL or description."
FallbackMessage == "Failed to analyze. Please try again."
NullAccessMessage == "Cannot read properties of null (reading 'error')"

ErrorResult(e) == Obj([error |-> e])

PayloadTextOnly(in, type) ==
    [job_text |-> Trim(in),
     job_url |-> IF IsUrl(Trim(in)) THEN Trim(in) ELSE <<>>,
     company_name |-> <<>>,
     analysis_type |-> type,
     job_title |-> <<>>]

PayloadQuick(in, type) ==
    [job_text |-> IF IsUrl(Trim(in)) THEN <<>> ELSE Trim(in),
     job_url |-> IF IsUrl(Trim(in)) THEN Trim(in) ELSE <<>>,
     company_name |-> <<>>,
     analysis_type |-> "quick",
     job_title |-> <<>>]

PayloadUntrimmed(in, type) ==
    [job_text |-> IF IsUrl(Trim(in)) THEN <<>> ELSE in,
     job_url |-> IF IsUrl(Trim(in)) THEN in ELSE <<>>,
     company_name |-> <<>>,
     analysis_type |-> type,
     job_title |-> <<>>]

\* the payload object built from the input and the analysis type
Payload(in, type) ==
    [job_text |-> IF IsUrl(Trim(in)) THEN <<>> ELSE Trim(in),
     job_url |-> IF IsUrl(Trim(in)) THEN Trim(in) ELSE <<>>,
     company_name |-> <<>>,
     analysis_type |-> type,
     job_title |-> <<>>]

IsBlankUntrimmed(in) == in = <<>>

\* the validation test !input.trim()
IsBlank(in) == Trim(in) = <<>>

OutcomeFallbackAlways(ok, data) ==
    IF data.k = "null"
    THEN ErrorResult(Str(NullAccessMessage))
    ELSE IF ~ok \/ Truthy(Get(data, "error"))
         THEN ErrorResult(Str(FallbackMessage))
         ELSE data

\* the value passed to setResult once response.json() resolved with data:
\* reading data.error of null throws a TypeError that the catch clause reports
Outcome(ok, data) ==
    IF data.k = "null"
    THEN ErrorResult(Str(NullAccessMessage))
    ELSE IF ~ok \/ Truthy(Get(data, "error"))
         THEN ErrorResult(IF Truthy(Get(data, "error")) THEN Get(data, "error")
                          ELSE Str(FallbackMessage))
         ELSE data

\* the value passed to setResult by the catch clause
Caught(err) == ErrorResult(Get(err, "message"))

(***************************************************************************)
(* Rendering.                                                              *)
(***************************************************************************)
ScreenLoginFirst ==
    IF showLogin THEN "login"
    ELSE IF showSignUp THEN "signup"
    ELSE IF showProfile THEN "profile"
    ELSE "landing"

\* which screen the component returns
Screen ==
    IF showSignUp THEN "signup"
    ELSE IF showLogin THEN "login"
    ELSE IF showProfile THEN "profile"
    ELSE "landing"

SubmitDisabledNoUser == userName = ""

SubmitDisabledLoading == loading

\* disabled attribute of the submit button
SubmitDisabled == loading \/ userName = ""

\* disabled attribute of the textarea and of the radio inputs
ControlsDisabled == userName = ""

\* which result panel the landing screen renders for the stored result r:
\* the error panel, the risk panel, the panel with the raw value, or nothing
Panel(r) ==
    IF Truthy(r) /\ Truthy(Get(r, "error")) THEN "error"
    ELSE IF Truthy(r) /\ TypeofObject(r) THEN "risk"
    ELSE IF Truthy(r) THEN "raw"
    ELSE "none"

\* the text of the raw panel, for a string or a number:
\* typeof result === 'string' ? result : JSON.stringify(result)
RawText(r) == IF r.k = "string" THEN r.v ELSE ToString(r.v)

\* the text the error panel shows
ErrorText(r) == Get(r, "error")

Max(a, b) == IF a > b THEN a ELSE b

Min(a, b) == IF a < b THEN a ELSE b

\* the number Math.min and Math.max give for an operand that is undefined
NaN == [k |-> "NaN"]

FillWidthUnclamped(r) ==
    LET score == Get(r, "risk_score")
    IN  IF score.k = "number" THEN Num(score.v) ELSE NaN

\* width of the fill of the risk bar, in percent
FillWidth(r) ==
    LET score == Get(r, "risk_score")
    IN  IF score.k = "number" THEN Num(Max(0, Min(100, score.v))) ELSE NaN

\* left offset of the marker of the risk bar, in percent
MarkerLeft(r) ==
    LET score == Get(r, "risk_score")
    IN  IF score.k = "number" THEN Num(Max(0, Min(100, score.v))) ELSE NaN

\* the score printed in the heading and in the marker
ScoreText(r) == Get(r, "risk_score")

RECURSIVE PadFlags(_, _)
PadFlags(flags, n) ==
    IF Len(flags) < n THEN PadFlags(Append(flags, Str("No flag")), n) ELSE flags

TilesUnpadded(r) ==
    LET rf == Get(Get(r, "analysis"), "red_flags")
    IN  IF IsArray(rf) THEN SubSeq(rf.v, 1, Min(8, Len(rf.v))) ELSE <<>>

TilesNoSlice(r) ==
    LET rf == Get(Get(r, "analysis"), "red_flags")
        flags == IF IsArray(rf) THEN rf.v ELSE <<>>
    IN  PadFlags(flags, 8)

\* the tiles of the red flag grid, rendered when r.analysis is truthy
Tiles(r) ==
    LET rf == Get(Get(r, "analysis"), "red_flags")
        flags == IF IsArray(rf) THEN SubSeq(rf.v, 1, Min(8, Len(rf.v))) ELSE <<>>
    IN  PadFlags(flags, 8)

\* r.analysis.red_flags once the grid is rendered: slice returns a new array
\* and the placeholders are pushed to that array, not to the response's
FlagsAfterRender(r) ==
    LET rf == Get(Get(r, "analysis"), "red_flags")
        copy == IF IsArray(rf) THEN SubSeq(rf.v, 1, Min(8, Len(rf.v))) ELSE <<>>
        pushed == PadFlags(copy, 8)
    IN  rf

\* the flag grid is part of the page
GridShown(r) == Panel(r) = "risk" /\ Truthy(Get(r, "analysis"))

(***************************************************************************)
(* SignUpPage, LoginScreen and ProfilePage.                                *)
(***************************************************************************)
\* useState initial value of the sign-up form
SignUpInitial ==
    [name |-> "", email |-> "", password |-> "", profession |-> "", interest |-> ""]

\* useState initial value of the login form
LoginInitial == [email |-> "", password |-> ""]

\* what the user can type into a text, email or password input
TextValues == {"", "a@b.c", "x"}

\* option values of the profession select
Professions == {"Student", "Working Professional"}

\* option values of the interest select
Interests == {"Technology", "Other"}

\* the values a change event of the field can carry
ValuesOf(field) ==
    CASE field = "profession" -> Professions
      [] field = "interest" -> Interests
      [] OTHER -> TextValues

FormChangeNoSpread(prev, name, value) == name :> value

\* the updater of handleChange: { ...prev, [name]: value }
FormChange(prev, name, value) == (name :> value) @@ prev

\* the typed values an input of type email accepts
ValidEmails == {"a@b.c"}

\* the browser's checks before a submit event: every input is required, and
\* the input of type email holds an address
RequiredFilled(form) ==
    /\ \A f \in DOMAIN form : form[f] # ""
    /\ form.email \in ValidEmails

NoAlert == [k |-> "none"]

\* the dialog alert(title + "\n" + JSON.stringify(form, null, 2)) opens
Alert(title, form) == [k |-> "alert", title |-> title, form |-> form]

\* keys of the sidebar options that only select
SidebarKeys == {"history", "downloads", "edit"}

\* label of the sidebar option with the given key
SidebarLabel(key) ==
    CASE key = "history" -> "Analysis History"
      [] key = "downloads" -> "Downloads"
      [] key = "edit" -> "Edit Profile"
      [] key = "logout" -> "Logout"

\* heading of the block MainContent renders: the switch on its own selected
ContentHeading ==
    CASE contentSelected = "history" -> "Analysis History"
      [] contentSelected = "downloads" -> "Downloads"
      [] contentSelected = "edit" -> "Edit Profile"
      [] OTHER -> "Welcome"

(***************************************************************************)
(* State machine.                                                          *)
(***************************************************************************)
Init ==
    /\ showSignUp = FALSE
    /\ showLogin = FALSE
    /\ userName = ""
    /\ showProfile = FALSE
    /\ input = <<>>
    /\ analysisType = "quick"
    /\ result = JNull
    /\ loading = FALSE
    /\ calls = <<>>
    /\ lastSelected = "none"
    /\ last = [k |-> "none"]
    /\ posts = 0
    /\ sidebarSelected = "history"
    /\ contentSelected = "history"
    /\ signUpForm = SignUpInitial
    /\ loginForm = LoginInitial
    /\ alert = NoAlert
    /\ backArg = "none"

analysisVars == <<input, analysisType, result, loading, calls, lastSelected, last, posts>>

\* local state of the Sidebar and MainContent components
profileVars == <<sidebarSelected, contentSelected>>

\* local state of the SignUpPage and LoginScreen components, and the argument
\* of the latest onBack call made from one of them
authVars == <<signUpForm, loginForm, alert, backArg>>

\* header button Sign Up
ClickSignUp ==
    /\ Screen = "landing" /\ userName = ""
    /\ showSignUp' = TRUE
    /\ UNCHANGED <<showLogin, userName, showProfile, analysisVars>>
    /\ backArg' = "none"
    /\ UNCHANGED <<profileVars, signUpForm, loginForm, alert>>

\* header button Log In
ClickLogIn ==
    /\ Screen = "landing" /\ userName = ""
    /\ showLogin' = TRUE
    /\ UNCHANGED <<showSignUp, userName, showProfile, analysisVars>>
    /\ backArg' = "none"
    /\ UNCHANGED <<profileVars, signUpForm, loginForm, alert>>

ClickWelcomeNoUser ==
    /\ Screen = "landing"
    /\ showProfile' = TRUE
    /\ UNCHANGED <<showSignUp, showLogin, userName, analysisVars>>
    /\ UNCHANGED <<profileVars, authVars>>

\* header link Welcome, <name>
ClickWelcome ==
    /\ Screen = "landing" /\ userName # ""
    /\ showProfile' = TRUE
    /\ UNCHANGED <<showSignUp, showLogin, userName, analysisVars>>
    /\ UNCHANGED <<profileVars, authVars>>

SignUpBackToLogin ==
    /\ Screen = "signup"
    /\ alert = NoAlert
    /\ showLogin' = TRUE
    /\ signUpForm' = SignUpInitial
    /\ UNCHANGED <<showSignUp, userName, showProfile, analysisVars,
                   profileVars, loginForm, alert, backArg>>

SignUpOnBackSwitches(arg) ==
    /\ Screen = "signup"
    /\ alert = NoAlert
    /\ showSignUp' = FALSE
    /\ showLogin' = (arg = "login")
    /\ UNCHANGED <<userName, showProfile, analysisVars>>
    /\ signUpForm' = SignUpInitial
    /\ backArg' = arg
    /\ UNCHANGED <<profileVars, loginForm, alert>>

\* onBack handed to SignUpPage, () => setShowSignUp(false), called with arg;
\* the page unmounts
SignUpOnBack(arg) ==
    /\ Screen = "signup"
    /\ alert = NoAlert
    /\ showSignUp' = FALSE
    /\ UNCHANGED <<showLogin, userName, showProfile, analysisVars>>
    /\ signUpForm' = SignUpInitial
    /\ backArg' = arg
    /\ UNCHANGED <<profileVars, loginForm, alert>>

\* onBack handed to LoginScreen, () => setShowLogin(false), called with arg;
\* the screen unmounts
LoginOnBack(arg) ==
    /\ Screen = "login"
    /\ alert = NoAlert
    /\ showLogin' = FALSE
    /\ UNCHANGED <<showSignUp, userName, showProfile, analysisVars>>
    /\ loginForm' = LoginInitial
    /\ backArg' = arg
    /\ UNCHANGED <<profileVars, signUpForm, alert>>

\* back arrow of SignUpPage: onClick={onBack} passes the click event
SignUpBack == SignUpOnBack("event")

\* back arrow of LoginScreen: onClick={onBack} passes the click event
LoginBack == LoginOnBack("event")

\* link 'Log in here' of SignUpPage: onBack("login")
SignUpLogInHere == SignUpOnBack("login")

\* link 'Sign up here' of LoginScreen: onBack("signup")
LoginSignUpHere == LoginOnBack("signup")

ProfileBackClears ==
    /\ Screen = "profile"
    /\ showProfile' = FALSE
    /\ result' = JNull
    /\ UNCHANGED <<showSignUp, showLogin, userName, input, analysisType,
                   loading, calls, lastSelected, last, posts>>
    /\ sidebarSelected' = "history"
    /\ contentSelected' = "history"
    /\ UNCHANGED authVars

\* onBack handed to ProfilePage
ProfileBack ==
    /\ Screen = "profile"
    /\ showProfile' = FALSE
    /\ UNCHANGED <<showSignUp, showLogin, userName, analysisVars>>
    /\ sidebarSelected' = "history"
    /\ contentSelected' = "history"
    /\ UNCHANGED authVars

HandleAuthSuccessKeepsScreen(name) ==
    /\ Screen \in {"signup", "login"}
    /\ alert = NoAlert
    /\ userName' = name
    /\ UNCHANGED <<showSignUp, showLogin, showProfile, analysisVars>>
    /\ UNCHANGED <<profileVars, authVars>>

\* handleAuthSuccess(name), handed to SignUpPage and LoginScreen as
\* onAuthSuccess; the auth screen unmounts
HandleAuthSuccessOf(name) ==
    /\ Screen \in {"signup", "login"}
    /\ alert = NoAlert
    /\ userName' = name
    /\ showSignUp' = FALSE
    /\ showLogin' = FALSE
    /\ UNCHANGED <<showProfile, analysisVars>>
    /\ signUpForm' = SignUpInitial
    /\ loginForm' = LoginInitial
    /\ UNCHANGED <<profileVars, alert, backArg>>

\* onAuthSuccess called by an auth screen with some name
HandleAuthSuccess == \E name \in Names : HandleAuthSuccessOf(name)

SetInputClears ==
    /\ Screen = "landing" /\ ~ControlsDisabled
    /\ \E v \in Inputs : input' = v
    /\ result' = JNull
    /\ UNCHANGED <<showSignUp, showLogin, userName, showProfile,
                   analysisType, loading, calls, lastSelected, last>>
    /\ UNCHANGED <<posts, profileVars, authVars>>

\* onChange of the textarea
SetInput ==
    /\ Screen = "landing" /\ ~ControlsDisabled
    /\ \E v \in Inputs : input' = v
    /\ UNCHANGED <<showSignUp, showLogin, userName, showProfile,
                   analysisType, result, loading, calls, lastSelected, last>>
    /\ UNCHANGED <<posts, profileVars, authVars>>

\* onChange of the radio input Quick
SelectQuick ==
    /\ Screen = "landing" /\ ~ControlsDisabled
    /\ lastSelected' = "quick"
    /\ analysisType' = IF userName # "" THEN "quick" ELSE analysisType
    /\ UNCHANGED <<showSignUp, showLogin, userName, showProfile,
                   input, result, loading, calls, last>>
    /\ UNCHANGED <<posts, profileVars, authVars>>

\* onChange of the radio input Detailed
SelectDetailed ==
    /\ Screen = "landing" /\ ~ControlsDisabled
    /\ lastSelected' = "detailed"
    /\ analysisType' = IF userName # "" THEN "detailed" ELSE analysisType
    /\ UNCHANGED <<showSignUp, showLogin, userName, showProfile,
                   input, result, loading, calls, last>>
    /\ UNCHANGED <<posts, profileVars, authVars>>

\* handleAnalyze up to its first await: validation fails
SubmitBlank ==
    /\ Screen = "landing" /\ ~SubmitDisabled
    /\ IsBlank(input)
    /\ result' = ErrorResult(Str(ValidationMessage))
    /\ last' = [k |-> "blank"]
    /\ UNCHANGED <<showSignUp, showLogin, userName, showProfile,
                   input, analysisType, loading, calls, lastSelected>>
    /\ UNCHANGED <<posts, profileVars, authVars>>

SubmitRequestKeepsResult ==
    /\ Screen = "landing" /\ ~SubmitDisabled
    /\ ~IsBlank(input)
    /\ loading' = TRUE
    /\ calls' = Append(calls, [url |-> "/api/analyze", method |-> "POST",
                               body |-> Payload(input, analysisType),
                               input |-> input,
                               stage |-> "fetch"])
    /\ last' = [k |-> "none"]
    /\ UNCHANGED <<showSignUp, showLogin, userName, showProfile,
                   input, analysisType, result, lastSelected>>
    /\ posts' = 1
    /\ UNCHANGED <<profileVars, authVars>>

\* handleAnalyze up to its first await: the request is issued
SubmitRequest ==
    /\ Screen = "landing" /\ ~SubmitDisabled
    /\ ~IsBlank(input)
    /\ result' = JNull
    /\ loading' = TRUE
    /\ calls' = Append(calls, [url |-> "/api/analyze", method |-> "POST",
                               body |-> Payload(input, analysisType),
                               input |-> input,
                               stage |-> "fetch"])
    /\ last' = [k |-> "none"]
    /\ UNCHANGED <<showSignUp, showLogin, userName, showProfile,
                   input, analysisType, lastSelected>>
    /\ posts' = 1
    /\ UNCHANGED <<profileVars, authVars>>

Remove(s, i) == SubSeq(s, 1, i - 1) \o SubSeq(s, i + 1, Len(s))

\* the body reads a response with the given ok flag can end in
ParsesFor(ok) == IF ok THEN Parses ELSE NonOkParses

\* await fetch(...) resolves with a response (status line and headers);
\* response.json() starts reading the body
FetchResolve ==
    \E i \in 1..Len(calls) : \E ok \in BOOLEAN :
        /\ calls[i].stage = "fetch"
        /\ calls' = [calls EXCEPT ![i] =
                        [url |-> calls[i].url, method |-> calls[i].method,
                         body |-> calls[i].body, input |-> calls[i].input,
                         stage |-> "json", ok |-> ok]]
        /\ UNCHANGED <<showSignUp, showLogin, userName, showProfile,
                       input, analysisType, result, loading, lastSelected, last>>
        /\ UNCHANGED <<posts, profileVars, authVars>>

FetchRejectNoFinally ==
    \E i \in 1..Len(calls) : \E err \in Failures :
        /\ calls[i].stage = "fetch"
        /\ result' = Caught(err)
        /\ last' = [k |-> "rejected", err |-> err]
        /\ calls' = Remove(calls, i)
        /\ UNCHANGED <<showSignUp, showLogin, userName, showProfile,
                       input, analysisType, loading, lastSelected>>
        /\ UNCHANGED <<posts, profileVars, authVars>>

FetchRejectRetry ==
    \E i \in 1..Len(calls) : \E err \in Failures :
        /\ calls[i].stage = "fetch"
        /\ posts' = posts + 1
        /\ UNCHANGED <<showSignUp, showLogin, userName, showProfile,
                       input, analysisType, result, loading, calls,
                       lastSelected, last>>
        /\ UNCHANGED <<profileVars, authVars>>

\* await fetch(...) rejects: catch, then finally
FetchReject ==
    \E i \in 1..Len(calls) : \E err \in Failures :
        /\ calls[i].stage = "fetch"
        /\ result' = Caught(err)
        /\ last' = [k |-> "rejected", err |-> err]
        /\ loading' = FALSE
        /\ calls' = Remove(calls, i)
        /\ UNCHANGED <<showSignUp, showLogin, userName, showProfile,
                       input, analysisType, lastSelected>>
        /\ UNCHANGED <<posts, profileVars, authVars>>

\* await response.json() resolves: the if of the try block, then finally
JsonResolve ==
    \E i \in 1..Len(calls) :
        /\ calls[i].stage = "json"
        /\ \E p \in ParsesFor(calls[i].ok) :
              /\ p.k = "value"
              /\ result' = Outcome(calls[i].ok, p.v)
              /\ last' = [k |-> "response", response |-> [ok |-> calls[i].ok, json |-> p]]
              /\ loading' = FALSE
              /\ calls' = Remove(calls, i)
              /\ UNCHANGED <<showSignUp, showLogin, userName, showProfile,
                             input, analysisType, lastSelected>>
              /\ UNCHANGED <<posts, profileVars, authVars>>

JsonRejectNoFinally ==
    \E i \in 1..Len(calls) :
        /\ calls[i].stage = "json"
        /\ \E p \in ParsesFor(calls[i].ok) :
              /\ p.k = "throws"
              /\ result' = Caught(p.v)
              /\ last' = [k |-> "response", response |-> [ok |-> calls[i].ok, json |-> p]]
              /\ calls' = Remove(calls, i)
              /\ UNCHANGED <<showSignUp, showLogin, userName, showProfile,
                             input, analysisType, loading, lastSelected>>
              /\ UNCHANGED <<posts, profileVars, authVars>>

\* await response.json() rejects: catch, then finally
JsonReject ==
    \E i \in 1..Len(calls) :
        /\ calls[i].stage = "json"
        /\ \E p \in ParsesFor(calls[i].ok) :
              /\ p.k = "throws"
              /\ result' = Caught(p.v)
              /\ last' = [k |-> "response", response |-> [ok |-> calls[i].ok, json |-> p]]
              /\ loading' = FALSE
              /\ calls' = Remove(calls, i)
              /\ UNCHANGED <<showSignUp, showLogin, userName, showProfile,
                             input, analysisType, lastSelected>>
              /\ UNCHANGED <<posts, profileVars, authVars>>

\* onClick of a sidebar option other than Logout: Sidebar's setSelected
SidebarSelect ==
    /\ Screen = "profile"
    /\ \E key \in SidebarKeys : sidebarSelected' = key
    /\ UNCHANGED <<showSignUp, showLogin, userName, showProfile, analysisVars,
                   contentSelected, authVars>>

SidebarLogoutClearsUser ==
    /\ Screen = "profile"
    /\ showProfile' = FALSE
    /\ userName' = ""
    /\ sidebarSelected' = "history"
    /\ contentSelected' = "history"
    /\ UNCHANGED <<showSignUp, showLogin, analysisVars, authVars>>

\* onClick of the sidebar option Logout: setSelected, then onLogout, which is
\* the onBack of ProfilePage; the page unmounts
SidebarLogout ==
    /\ Screen = "profile"
    /\ showProfile' = FALSE
    /\ sidebarSelected' = "history"
    /\ contentSelected' = "history"
    /\ UNCHANGED <<showSignUp, showLogin, userName, analysisVars, authVars>>

\* handleChange of SignUpPage for a change event of the input named field
SignUpChangeTo(field, value) ==
    /\ Screen = "signup"
    /\ alert = NoAlert
    /\ signUpForm' = FormChange(signUpForm, field, value)
    /\ UNCHANGED <<showSignUp, showLogin, userName, showProfile, analysisVars,
                   profileVars, loginForm, alert, backArg>>

\* handleChange of SignUpPage
SignUpChange ==
    \E field \in DOMAIN SignUpInitial : \E value \in ValuesOf(field) :
        SignUpChangeTo(field, value)

\* handleChange of LoginScreen for a change event of the input named field
LoginChangeTo(field, value) ==
    /\ Screen = "login"
    /\ alert = NoAlert
    /\ loginForm' = FormChange(loginForm, field, value)
    /\ UNCHANGED <<showSignUp, showLogin, userName, showProfile, analysisVars,
                   profileVars, signUpForm, alert, backArg>>

\* handleChange of LoginScreen
LoginChange ==
    \E field \in DOMAIN LoginInitial : \E value \in ValuesOf(field) :
        LoginChangeTo(field, value)

LoginSubmitBack ==
    /\ Screen = "login"
    /\ alert = NoAlert
    /\ RequiredFilled(loginForm)
    /\ alert' = Alert("Login submitted!", loginForm)
    /\ showLogin' = FALSE
    /\ UNCHANGED <<showSignUp, userName, showProfile, analysisVars,
                   profileVars, signUpForm, loginForm, backArg>>

SignUpSubmitAuth ==
    /\ Screen = "signup"
    /\ alert = NoAlert
    /\ RequiredFilled(signUpForm)
    /\ userName' = signUpForm.name
    /\ showSignUp' = FALSE
    /\ showLogin' = FALSE
    /\ signUpForm' = SignUpInitial
    /\ UNCHANGED <<showProfile, analysisVars, profileVars, loginForm, alert, backArg>>

\* handleSubmit of SignUpPage: the alert blocks until it is dismissed
SignUpSubmit ==
    /\ Screen = "signup"
    /\ alert = NoAlert
    /\ RequiredFilled(signUpForm)
    /\ alert' = Alert("Sign up submitted!", signUpForm)
    /\ UNCHANGED <<showSignUp, showLogin, userName, showProfile, analysisVars,
                   profileVars, signUpForm, loginForm, backArg>>

\* handleSubmit of LoginScreen: the alert blocks until it is dismissed
LoginSubmit ==
    /\ Screen = "login"
    /\ alert = NoAlert
    /\ RequiredFilled(loginForm)
    /\ alert' = Alert("Login submitted!", loginForm)
    /\ UNCHANGED <<showSignUp, showLogin, userName, showProfile, analysisVars,
                   profileVars, signUpForm, loginForm, backArg>>

\* the user closes the alert; handleSubmit returns
DismissAlert ==
    /\ alert # NoAlert
    /\ alert' = NoAlert
    /\ UNCHANGED <<showSignUp, showLogin, userName, showProfile, analysisVars,
                   profileVars, signUpForm, loginForm, backArg>>

Next ==
    \/ ClickSignUp
    \/ ClickLogIn
    \/ ClickWelcome
    \/ SignUpBack
    \/ LoginBack
    \/ ProfileBack
    \/ HandleAuthSuccess
    \/ SetInput
    \/ SelectQuick
    \/ SelectDetailed
    \/ SubmitBlank
    \/ SubmitRequest
    \/ FetchResolve
    \/ FetchReject
    \/ JsonResolve
    \/ JsonReject
    \/ SidebarSelect
    \/ SidebarLogout
    \/ SignUpChange
    \/ LoginChange
    \/ SignUpSubmit
    \/ LoginSubmit
    \/ DismissAlert
    \/ SignUpLogInHere
    \/ LoginSignUpHere

Spec == Init /\ [][Next]_vars

\* the network call settles: a pending fetch resolves or rejects, and a
\* pending response.json() resolves or rejects
LiveSpec ==
    /\ Spec
    /\ WF_vars(FetchResolve \/ FetchReject)
    /\ WF_vars(JsonResolve \/ JsonReject)

\* the application as composed in the repository: SignUpPage and LoginScreen
\* take only onBack from their props, so handleAuthSuccess is never called,
\* and the controls of the landing form and the profile link stay disabled
AppNext ==
    \/ ClickSignUp
    \/ ClickLogIn
    \/ SignUpBack
    \/ LoginBack
    \/ SignUpChange
    \/ LoginChange
    \/ SignUpSubmit
    \/ LoginSubmit
    \/ DismissAlert
    \/ SignUpLogInHere
    \/ LoginSignUpHere

AppSpec == Init /\ [][AppNext]_vars

\* MainScreen started with every combination of its three screen flags
AnyFlagsInit ==
    /\ showSignUp \in BOOLEAN
    /\ showLogin \in BOOLEAN
    /\ showProfile \in BOOLEAN
    /\ userName = ""
    /\ input = <<>>
    /\ analysisType = "quick"
    /\ result = JNull
    /\ loading = FALSE
    /\ calls = <<>>
    /\ lastSelected = "none"
    /\ last = [k |-> "none"]
    /\ posts = 0
    /\ sidebarSelected = "history"
    /\ contentSelected = "history"
    /\ signUpForm = SignUpInitial
    /\ loginForm = LoginInitial
    /\ alert = NoAlert
    /\ backArg = "none"

AnyFlagsSpec == AnyFlagsInit /\ [][Next]_vars

(***************************************************************************)
(* Properties.                                                             *)
(***************************************************************************)
\* number of whitespace characters s starts with
LeadingWs(s) ==
    CHOOSE n \in 0..Len(s) :
        /\ \A i \in 1..n : s[i] \in WhiteSpace
        /\ n < Len(s) => s[n + 1] \notin WhiteSpace

\* number of whitespace characters s ends with
TrailingWs(s) ==
    CHOOSE n \in 0..Len(s) :
        /\ \A i \in 1..n : s[Len(s) + 1 - i] \in WhiteSpace
        /\ n < Len(s) => s[Len(s) - n] \notin WhiteSpace

AllWs(s) == \A i \in 1..Len(s) : s[i] \in WhiteSpace

\* s without its leading and trailing whitespace
Stripped(s) ==
    IF AllWs(s) THEN <<>> ELSE SubSeq(s, LeadingWs(s) + 1, Len(s) - TrailingWs(s))

Lower(c) ==
    CASE c = "H" -> "h"
      [] c = "T" -> "t"
      [] c = "P" -> "p"
      [] c = "S" -> "s"
      [] OTHER -> c

LowerPrefix(s, n) == [i \in 1..Min(n, Len(s)) |-> Lower(s[i])]

\* s begins with http:// or https://, in any letter case
BeginsWithScheme(s) ==
    \/ LowerPrefix(s, 7) = <<"h", "t", "t", "p", ":", "/", "/">>
    \/ LowerPrefix(s, 8) = <<"h", "t", "t", "p", "s", ":", "/", "/">>

CallSet == {calls[i] : i \in 1..Len(calls)}

SentAsUrl(c) == c.body.job_url # <<>> /\ c.body.job_text = <<>>
SentAsText(c) == c.body.job_text # <<>> /\ c.body.job_url = <<>>

\* C1 as stated: a request whose input begins with http:// or https:// (in
\* any letter case) has a non-empty job_url and an empty job_text, and a
\* request for any other non-empty input has a non-empty job_text and an
\* empty job_url.
C1_RoutingOnRawInput ==
    \A c \in CallSet :
        /\ BeginsWithScheme(c.input) => SentAsUrl(c)
        /\ (~BeginsWithScheme(c.input) /\ c.input # <<>>) => SentAsText(c)

\* C1 amended: the routing looks at the input without its leading and
\* trailing whitespace: a request whose stripped input begins with http://
\* or https:// (in any letter case) has a non-empty job_url and an empty
\* job_text, and every other request has a non-empty job_text and an empty
\* job_url.
C1_RoutingOnTrimmedInput ==
    \A c \in CallSet :
        /\ BeginsWithScheme(Stripped(c.input)) => SentAsUrl(c)
        /\ ~BeginsWithScheme(Stripped(c.input)) => SentAsText(c)

\* an upper-case URL typed after whitespace is in flight as job_url
C1_Witness ==
    \E c \in CallSet :
        /\ c.input = Pad(1) \o HttpUpper
        /\ c.body.job_url = HttpUpper
        /\ c.body.job_text = <<>>

\* C2: a submit with an empty or whitespace-only input issues no request,
\* leaves loading false and sets the result to the fixed validation error.
C2_BlankSubmit ==
    /\ \A c \in CallSet : ~AllWs(c.input)
    /\ last.k = "blank" =>
        /\ result = Obj([error |-> Str("Please enter a job posting URL or description.")])
        /\ loading = FALSE
        /\ calls = <<>>

\* a whitespace-only input was submitted
C2_Witness ==
    /\ last.k = "blank"
    /\ input # <<>>
    /\ AllWs(input)
    /\ Panel(result) = "error"

\* C3: at most one request is outstanding, and while one is outstanding the
\* submit control is disabled.
C3_OneOutstanding ==
    /\ Len(calls) <= 1
    /\ calls # <<>> => SubmitDisabled

\* a request is outstanding on the landing screen, its response being read
C3_Witness ==
    /\ Len(calls) = 1
    /\ calls[1].stage = "json"
    /\ Screen = "landing"
    /\ SubmitDisabled

\* the parsed body d has an error field holding a non-empty string
HasErrorString(d) ==
    /\ d.k = "object"
    /\ "error" \in DOMAIN d.v
    /\ d.v.error.k = "string"
    /\ d.v.error.v # ""

Responded == last.k = "response"
Parsed == Responded /\ last.response.json.k = "value"
ParsedBody == last.response.json.v

\* C4: after a response whose body has a non-empty error field, whatever its
\* status and its other fields, the error panel shows that error string and
\* the risk-score panel is not rendered.
C4_ErrorFieldWins ==
    (Parsed /\ HasErrorString(ParsedBody)) =>
        /\ Panel(result) = "error"
        /\ ErrorText(result) = ParsedBody.v.error

\* a 2xx response carrying both an error and a risk_score ended in the error panel
C4_Witness ==
    /\ Parsed
    /\ last.response.ok
    /\ HasErrorString(ParsedBody)
    /\ "risk_score" \in DOMAIN ParsedBody.v
    /\ Panel(result) = "error"

\* C5 as stated: after a non-2xx response the error panel is rendered, with
\* the body's error string when it has one and the fallback message otherwise.
C5_NonOkIsFailure ==
    (Responded /\ ~last.response.ok) =>
        /\ Panel(result) = "error"
        /\ ErrorText(result) =
              IF Parsed /\ HasErrorString(ParsedBody)
              THEN ParsedBody.v.error
              ELSE Str("Failed to analyze. Please try again.")

\* the failure value of the last handler run, when the call was rejected
Rejected ==
    \/ last.k = "rejected"
    \/ Responded /\ last.response.json.k = "throws"
Failure == IF last.k = "rejected" THEN last.err ELSE last.response.json.v

\* C6 as stated: after a rejected fetch or a body that fails to parse the
\* error panel is rendered with the failure's message, whatever the failure.
C6_RejectionShowsError ==
    Rejected =>
        /\ Panel(result) = "error"
        /\ ErrorText(result) = Get(Failure, "message")

\* the red_flags value of the stored result
RedFlags(r) == Get(Get(r, "analysis"), "red_flags")

\* C7: for a rendered result whose analysis.red_flags has n < 8 entries the
\* grid has exactly 8 tiles, the first n being the returned flags in order
\* and the other 8 - n the placeholder 'No flag'.
C7_PaddedToEight ==
    (GridShown(result) /\ IsArray(RedFlags(result)) /\ Len(RedFlags(result).v) < 8) =>
        LET rf == RedFlags(result).v
        IN  /\ Len(Tiles(result)) = 8
            /\ \A i \in 1..Len(rf) : Tiles(result)[i] = rf[i]
            /\ \A i \in (Len(rf) + 1)..8 : Tiles(result)[i] = Str("No flag")

\* the spec's example: three flags returned, five placeholders
C7_Witness ==
    /\ GridShown(result)
    /\ IsArray(RedFlags(result))
    /\ Len(RedFlags(result).v) = 3
    /\ Tiles(result)[3] = Str("Gmail contact")
    /\ Tiles(result)[4] = Str("No flag")

\* C8: the analysis_type of a request being issued is 'quick' or 'detailed':
\* 'quick' when the selector was never changed, otherwise the option
\* selected last.
C8_AnalysisType ==
    [][Len(calls') = Len(calls) + 1 =>
          LET type == calls'[Len(calls')].body.analysis_type
          IN  /\ type \in {"quick", "detailed"}
              /\ type = IF lastSelected = "none" THEN "quick" ELSE lastSelected]_vars

\* a request with type detailed is in flight
C8_Witness ==
    /\ Len(calls) = 1
    /\ calls[1].body.analysis_type = "detailed"

\* C9: a request carries exactly the five fields, company_name and job_title
\* empty and exactly one of job_text / job_url non-empty; the example input
\* with type detailed yields the example request.
C9_PayloadShape ==
    \A c \in CallSet :
        /\ DOMAIN c.body = {"job_text", "job_url", "company_name", "analysis_type", "job_title"}
        /\ c.body.company_name = <<>>
        /\ c.body.job_title = <<>>
        /\ (c.body.job_text # <<>>) # (c.body.job_url # <<>>)
        /\ (c.input = HttpsExample /\ c.body.analysis_type = "detailed") =>
              /\ c.body.job_text = <<>>
              /\ c.body.job_url = HttpsExample

\* the example request is in flight
C9_Witness ==
    \E c \in CallSet :
        /\ c.input = HttpsExample
        /\ c.body.analysis_type = "detailed"
        /\ c.body.job_url = HttpsExample

\* the parsed body d has a truthy error field
HasTruthyError(d) ==
    /\ d.k = "object"
    /\ "error" \in DOMAIN d.v
    /\ Truthy(d.v.error)

\* C10 as stated: after a 2xx response whose parsed body has no truthy error
\* field the stored result is exactly the parsed body.
C10_StoredVerbatim ==
    (Parsed /\ last.response.ok /\ ~HasTruthyError(ParsedBody)) =>
        result = ParsedBody

\* C11: loading is true exactly while one request is outstanding.
C11_LoadingTracksRequest ==
    /\ loading <=> Len(calls) = 1
    /\ ~loading <=> calls = <<>>

\* a request was rejected and the flag is back to false
C11_Witness ==
    /\ last.k = "rejected"
    /\ ~loading
    /\ calls = <<>>

\* C12: an accepted submit issues exactly one POST and nothing else issues
\* one: no more than one POST is sent for the latest accepted submit, also
\* after its request failed or was rejected, and every outstanding request
\* belongs to it.
C12_OnePostPerSubmit ==
    /\ posts \in {0, 1}
    /\ Len(calls) <= posts
    /\ (loading \/ last.k \in {"response", "rejected"}) => posts = 1

\* the request of a submit was rejected and no other request followed
C12_Witness ==
    /\ last.k = "rejected"
    /\ posts = 1
    /\ calls = <<>>

\* C13 as stated: on the profile screen the content pane shows the block of
\* the sidebar item selected last.
C13_ContentFollowsSidebar ==
    (Screen = "profile" /\ sidebarSelected \in SidebarKeys) =>
        ContentHeading = SidebarLabel(sidebarSelected)

\* C14: at most one of showSignUp, showLogin, showProfile is true.
C14_OneScreenFlag ==
    /\ ~(showSignUp /\ showLogin)
    /\ ~(showSignUp /\ showProfile)
    /\ ~(showLogin /\ showProfile)

\* the profile screen is open after an auth success, the other flags false
C14_Witness ==
    /\ showProfile
    /\ userName # ""
    /\ ~showSignUp
    /\ ~showLogin

\* the change event of field f with value v turns form before into after
OneFieldSet(before, after, f, v) ==
    /\ DOMAIN after = DOMAIN before
    /\ after[f] = v
    /\ \A g \in DOMAIN before \ {f} : after[g] = before[g]

\* C15: a change event for field f with value v sets form[f] to v, leaves the
\* other fields unchanged and keeps the set of field names, in both forms.
C15_ChangeSetsOneField ==
    [][/\ \A f \in {"name", "email", "password", "profession", "interest"} :
            \A v \in ValuesOf(f) :
                SignUpChangeTo(f, v) => OneFieldSet(signUpForm, signUpForm', f, v)
       /\ \A f \in {"email", "password"} :
            \A v \in ValuesOf(f) :
                LoginChangeTo(f, v) => OneFieldSet(loginForm, loginForm', f, v)]_vars

\* several fields of the sign-up form were set one after the other
C15_Witness ==
    /\ Screen = "signup"
    /\ signUpForm.name = "x"
    /\ signUpForm.email = "a@b.c"
    /\ signUpForm.profession = "Student"
    /\ signUpForm.password = ""
    /\ signUpForm.interest = ""

\* C16: in the composed application userName is always the empty string.
C16_NoAuthentication == userName = ""

\* a filled sign-up form was submitted and no user is set
C16_Witness ==
    /\ alert # NoAlert
    /\ alert.title = "Sign up submitted!"
    /\ alert.form.name = "x"
    /\ userName = ""

\* C17: a displayed error result is changed by nothing but a submit, and a
\* submit that issues a request clears it.
C17_ErrorStays ==
    [][Panel(result) = "error" =>
          /\ result' # result => (SubmitBlank \/ SubmitRequest)
          /\ SubmitRequest => result' = JNull]_vars

\* the error of a rejected request is still stored while the profile is open
C17_Witness ==
    /\ last.k = "rejected"
    /\ Panel(result) = "error"
    /\ Screen = "profile"

\* C18: the grid always has 8 tiles: more than 8 flags are cut to the first
\* 8 in order, a missing or non-array red_flags gives 8 'No flag' tiles, and
\* the red_flags of the stored result is not modified by rendering.
C18_AlwaysEightTiles ==
    GridShown(result) =>
        /\ Len(Tiles(result)) = 8
        /\ (IsArray(RedFlags(result)) /\ Len(RedFlags(result).v) > 8) =>
              Tiles(result) = [i \in 1..8 |-> RedFlags(result).v[i]]
        /\ ~IsArray(RedFlags(result)) =>
              Tiles(result) = [i \in 1..8 |-> Str("No flag")]
        /\ FlagsAfterRender(result) = RedFlags(result)

\* nine flags were returned and the ninth is not shown
C18_Witness ==
    /\ GridShown(result)
    /\ IsArray(RedFlags(result))
    /\ Len(RedFlags(result).v) = 9
    /\ Tiles(result)[8] = Str("No flag")
    /\ RedFlags(result).v[9] = Str("Gmail contact")

\* r is an object made by { error: ... }
IsErrorObject(r) == r.k = "object" /\ DOMAIN r.v = {"error"}

\* C19: when the network call settles, loading returns to false, and it does
\* so only in the step that settles the call, which stores the response body
\* or an error object; nothing else ends the wait.
C19_SubmitFinishes ==
    /\ loading ~> ~loading
    /\ [][(loading /\ ~loading') =>
             /\ FetchReject \/ JsonResolve \/ JsonReject
             /\ \/ IsErrorObject(result')
                \/ last'.k = "response" /\ last'.response.json.k = "value"
                     /\ result' = last'.response.json.v]_vars

\* a submit finished with the response body stored
C19_Witness ==
    /\ ~loading
    /\ Parsed
    /\ result = ParsedBody
    /\ posts = 1

\* C20: the screen is signup if showSignUp, else login if showLogin, else
\* profile if showProfile, else landing, for every combination of the flags.
C20_ScreenPriority ==
    /\ Screen \in {"signup", "login", "profile", "landing"}
    /\ showSignUp => Screen = "signup"
    /\ (~showSignUp /\ showLogin) => Screen = "login"
    /\ (~showSignUp /\ ~showLogin /\ showProfile) => Screen = "profile"
    /\ (~showSignUp /\ ~showLogin /\ ~showProfile) => Screen = "landing"

\* login and profile flags both true: the login screen is rendered
C20_Witness ==
    /\ ~showSignUp
    /\ showLogin
    /\ showProfile
    /\ Screen = "login"
    /\ loginForm.password = "x"

\* C21: submitting the sign-up or the login form opens the alert with the
\* collected values and nothing else: the fields of both forms, the three
\* screen flags and userName are unchanged, so the same auth screen stays
\* displayed, also once the alert is closed.
C21_SubmitOnlySurfaces ==
    [][(alert' # alert) =>
          /\ UNCHANGED <<signUpForm, loginForm, showSignUp, showLogin,
                         showProfile, userName, analysisVars>>
          /\ Screen' = Screen
          /\ Screen \in {"signup", "login"}
          /\ (alert = NoAlert) =>
                alert'.form = IF Screen = "signup" THEN signUpForm ELSE loginForm]_vars

\* the login form was submitted: its values are shown, the login screen stays
C21_Witness ==
    /\ alert # NoAlert
    /\ alert.title = "Login submitted!"
    /\ alert.form = loginForm
    /\ loginForm.password = "x"
    /\ Screen = "login"
    /\ userName = ""

\* the risk panel is rendered for a result with an integer risk_score
ScoreShown(r) == Panel(r) = "risk" /\ Get(r, "risk_score").k = "number"

\* C22: for an integer risk_score the fill width and the marker position are
\* max(0, min(100, risk_score)) percent: within [0,100], equal to risk_score
\* when it is in range, 0 below and 100 above; the score text is risk_score
\* itself.
C22_BarClamped ==
    ScoreShown(result) =>
        LET score == Get(result, "risk_score").v
            clamped == IF score < 0 THEN 0 ELSE IF score > 100 THEN 100 ELSE score
        IN  /\ FillWidth(result) = Num(clamped)
            /\ MarkerLeft(result) = Num(clamped)
            /\ FillWidth(result).v \in 0..100
            /\ score \in 0..100 => FillWidth(result).v = score
            /\ ScoreText(result) = Num(score)

\* a score of 250 is drawn as a full bar and printed as 250
C22_Witness ==
    /\ ScoreShown(result)
    /\ ScoreText(result) = Num(250)
    /\ FillWidth(result) = Num(100)
    /\ MarkerLeft(result) = Num(100)

\* C23: handleAuthSuccess(name) sets userName to name and showSignUp and
\* showLogin to false and leaves showProfile, input, analysisType, result and
\* loading unchanged; with a non-empty name the landing screen follows, its
\* textarea, type selector and submit control enabled.
C23_AuthSuccessFrame ==
    [][\A name \in Names :
          HandleAuthSuccessOf(name) =>
              /\ userName' = name
              /\ ~showSignUp'
              /\ ~showLogin'
              /\ UNCHANGED <<showProfile, input, analysisType, result, loading>>
              /\ name # "" =>
                    /\ Screen' = "landing"
                    /\ ~ControlsDisabled'
                    /\ ~SubmitDisabled']_vars

\* a user has just been set from an auth screen: landing, controls enabled
C23_Witness ==
    /\ userName = "alice"
    /\ Screen = "landing"
    /\ ~ControlsDisabled
    /\ ~SubmitDisabled
    /\ input = <<>>
    /\ posts = 0

\* C24: while userName is empty the textarea, the type selector and the
\* submit control are disabled, the input and the analysis type do not
\* change, and no request is issued or outstanding.
C24_GatedWithoutUser ==
    /\ [](userName = "" =>
            /\ ControlsDisabled
            /\ SubmitDisabled
            /\ calls = <<>>
            /\ ~loading)
    /\ [][userName = "" =>
            /\ input' = input
            /\ analysisType' = analysisType
            /\ calls' = calls
            /\ posts' = posts]_vars

\* back on the landing screen from an auth screen, still without a user
C24_Witness ==
    /\ userName = ""
    /\ Screen = "landing"
    /\ backArg = "event"
    /\ SubmitDisabled
    /\ ControlsDisabled
    /\ posts = 0

\* C25: showProfile is true only if userName is non-empty, and showSignUp or
\* showLogin becomes true only in a state where userName is empty.
C25_HeaderExclusive ==
    /\ [](showProfile => userName # "")
    /\ [][((~showSignUp /\ showSignUp') \/ (~showLogin /\ showLogin')) =>
             userName = ""]_vars

\* the profile screen of a user, opened by the profile link
C25_Witness ==
    /\ showProfile
    /\ userName = "alice"
    /\ sidebarSelected = "edit"

\* C26: a step that opens or closes the sign-up, login or profile screen
\* leaves input, analysisType, result and loading unchanged; a request
\* outstanding while the profile screen is displayed can still settle there,
\* and the step that ends it on that screen stores a result and resets
\* loading.
C26_NavigationKeepsAnalysis ==
    /\ [][(showSignUp' # showSignUp \/ showLogin' # showLogin
             \/ showProfile' # showProfile) =>
             UNCHANGED <<input, analysisType, result, loading>>]_vars
    /\ []((Screen = "profile" /\ loading) =>
             ENABLED (FetchResolve \/ FetchReject \/ JsonResolve \/ JsonReject))
    /\ [][(Screen = "profile" /\ loading /\ calls' = <<>>) =>
             /\ ~loading'
             /\ result' # JNull
             /\ Screen' = "profile"]_vars

\* the response of a request is being read while the profile is displayed
C26_Witness ==
    /\ Screen = "profile"
    /\ loading
    /\ Len(calls) = 1
    /\ calls[1].stage = "json"
    /\ result = JNull

\* C27: while a request is outstanding the result is null, and a result
\* shown when none is outstanding is the outcome of the latest submit: the
\* validation error, the error of its failure, or its response body or the
\* error made from it.
C27_NoStaleResult ==
    /\ loading => result = JNull
    /\ (~loading /\ last.k = "none") => result = JNull
    /\ last.k = "blank" => result = Obj([error |-> Str(ValidationMessage)])
    /\ Rejected => result = Obj([error |-> Get(Failure, "message")])
    /\ Parsed => (result = ParsedBody \/ IsErrorObject(result))

\* a request is outstanding for a submit made with type detailed, result null
C27_Witness ==
    /\ loading
    /\ result = JNull
    /\ Len(calls) = 1
    /\ calls[1].stage = "fetch"
    /\ calls[1].body.analysis_type = "detailed"
    /\ calls[1].input = JobText

\* s begins with the characters http:// or https://
BeginsWithLowerScheme(s) ==
    \/ Len(s) >= 7 /\ SubSeq(s, 1, 7) = <<"h", "t", "t", "p", ":", "/", "/">>
    \/ Len(s) >= 8 /\ SubSeq(s, 1, 8) = <<"h", "t", "t", "p", "s", ":", "/", "/">>

\* C28: the non-empty one of job_url / job_text is the input without its
\* leading and trailing whitespace, and an input whose first non-whitespace
\* characters are http:// or https:// is sent as job_url.
C28_TrimmedPayload ==
    \A c \in CallSet :
        /\ (IF c.body.job_url # <<>> THEN c.body.job_url ELSE c.body.job_text)
              = Stripped(c.input)
        /\ BeginsWithLowerScheme(Stripped(c.input)) => SentAsUrl(c)

\* the example URL typed between whitespace is in flight as job_url, trimmed
C28_Witness ==
    \E c \in CallSet :
        /\ c.input = Pad(1) \o HttpsExample \o Pad(1)
        /\ c.body.job_url = HttpsExample
        /\ c.body.job_text = <<>>

\* C29: 'Log in here' on the sign-up screen and 'Sign up here' on the login
\* screen do what the back arrow does: the landing screen follows, with
\* showSignUp and showLogin false and everything else of MainScreen unchanged.
C29_CrossLinksGoBack ==
    [][/\ SignUpLogInHere =>
            /\ ~showSignUp'
            /\ ~showLogin'
            /\ Screen' = "landing"
            /\ UNCHANGED <<userName, showProfile, analysisVars>>
       /\ LoginSignUpHere =>
            /\ ~showSignUp'
            /\ ~showLogin'
            /\ Screen' = "landing"
            /\ UNCHANGED <<userName, showProfile, analysisVars>>]_vars

\* 'Log in here' was used: the landing screen is displayed, not the login
C29_Witness ==
    /\ backArg = "login"
    /\ Screen = "landing"
    /\ ~showLogin
    /\ ~showSignUp

\* C30 as stated: Logout sets showProfile to false and leaves userName,
\* input, analysisType, result and loading unchanged, and the landing screen
\* that follows has the user set and the textarea, the type selector and the
\* submit control enabled.
C30_LogoutKeepsControls ==
    [][SidebarLogout =>
          /\ ~showProfile'
          /\ UNCHANGED <<userName, input, analysisType, result, loading>>
          /\ Screen' = "landing"
          /\ userName' # ""
          /\ ~ControlsDisabled'
          /\ ~SubmitDisabled']_vars

\* C30 amended: Logout sets showProfile to false and leaves userName, input,
\* analysisType, result and loading unchanged, and the landing screen that
\* follows has the user set and the textarea and the type selector enabled;
\* the submit control is disabled exactly when a request is still outstanding.
C30_LogoutOnlyCloses ==
    [][SidebarLogout =>
          /\ ~showProfile'
          /\ UNCHANGED <<userName, input, analysisType, result, loading>>
          /\ Screen' = "landing"
          /\ userName' # ""
          /\ ~ControlsDisabled'
          /\ SubmitDisabled' <=> loading']_vars

\* the landing screen of a user with a request outstanding, as Logout leaves
\* it when the profile was opened during the request
C30_Witness ==
    /\ Screen = "landing"
    /\ userName = "alice"
    /\ ~ControlsDisabled
    /\ loading
    /\ SubmitDisabled
    /\ sidebarSelected = "history"

====
